---- MODULE Spec2Model ----
(***************************************************************************)
(* Energy ingestion and power-spike alerting pipeline of the energy        *)
(* dashboard backend (energy controller: addEnergyReading and              *)
(* checkForPowerSpike).                                                    *)
(*                                                                         *)
(* Every request is a process.  A step of a request is the piece of the    *)
(* async handler that runs between two awaits: it consumes the result of   *)
(* the awaited call (the effect of that call on the stores happens in the  *)
(* same step) and runs the handler up to the next await or to the          *)
(* response.  Steps of different requests interleave freely, as on the     *)
(* Node.js event loop.                                                     *)
(*                                                                         *)
(* Numbers: power is current * voltage over integers; the mean of a window *)
(* and the threshold are exact rationals [num, den] (the IEEE rounding of  *)
(* the division and of the multiplication by 1.5 is not modelled).         *)
(***************************************************************************)
EXTENDS Integers, Sequences, FiniteSets, TLC

\* ---------------------------------------------------------------- bounds
\* Longest history already stored for device "d1" when the run starts.
MaxHist == 10

\* ------------------------------------------------------ program constants
\* .limit(10): size of the history window.
WindowLimit == 10
\* recentReadings.length >= 5: least window the detector evaluates.
MinReadings == 5

\* The ingestion requests of one run, numbered in their order of arrival;
\* they may overlap.
Reqs == {1, 2}
\* Payload values: current (A) and voltage (V); power = current * voltage.
Currents == {0, 1, 2, 5}
Voltages == {100}
\* Power level of the readings stored before the run starts.
HistLevels == {0, 100}
\* Device ids a payload may name; "dX" is not registered.
DeviceIds == {"d1", "d2", "dX"}
\* What User.findById finds for an owner: no document, a document without
\* contact channel, with an email, with a push token.
UserKinds == {"absent", "nocontact", "email", "fcm"}

None == [none |-> TRUE]

VARIABLES
    readings,   \* EnergyReading collection, in insertion (timestamp) order
    alerts,     \* Alert collection, in insertion order
    userStore,  \* User collection: owner id -> kind of document
    gateway,    \* calls made to sendEnergyAlert, in call order
    pc,         \* per request: the await it is suspended at
    body,       \* per request: req.body and the outcome of validationResult
    loc,        \* per request: the handler's local constants
    res,        \* per request: the response sent (status 0: none yet)
    ops,        \* per request: the awaited calls it has issued, in order
    failed,     \* per request: the awaited call that threw ("none" if none)
    prior,      \* per request: the device's readings stored before its insert
    rd,         \* the GET /api/energy/:deviceId request
    chat,       \* the POST /api/chatbot/query request
    ai          \* the GET /api/ai/predict/:deviceId request and the Prediction collection

vars == <<readings, alerts, userStore, gateway, pc, body, loc, res, ops, failed, prior, rd, chat,
          ai>>

\* The requests of the other endpoints.
others == <<rd, chat, ai>>

\* ------------------------------------------------------------ arithmetic
Rat(n, d) == [num |-> n, den |-> d]

\* a = b for rationals with positive denominators.
RatEq(a, b) == a.num * b.den = b.num * a.den

\* The integer p as a rational.
OfInt(p) == Rat(p, 1)

\* a > b for rationals with positive denominators.
RatGt(a, b) == a.num * b.den > b.num * a.den

\* power = current + voltage
PowerSum(current, voltage) == current + voltage

\* const power = current * voltage
Power(current, voltage) == current * voltage

\* ---------------------------------------------------------------- stores
\* Device collection: deviceId -> userId of the owner.
Devices == [d \in {"d1", "d2"} |-> IF d = "d1" THEN "u1" ELSE "u2"]

\* Device.findOne({}) without the deviceId filter: the first device stored.
FindOneDeviceAny(deviceId) == [deviceId |-> "d1", userId |-> Devices["d1"]]

\* Device.findOne({ deviceId }): the document, or None (null).
FindOneDevice(deviceId) ==
    IF deviceId \in DOMAIN Devices
    THEN [deviceId |-> deviceId, userId |-> Devices[deviceId]]
    ELSE None

\* User.findById(userId): the document with its email and fcmToken, or None.
FindUserById(store, userId) ==
    CASE store[userId] = "absent"    -> None
      [] store[userId] = "nocontact" -> [id |-> userId, email |-> "", fcmToken |-> ""]
      [] store[userId] = "email"     -> [id |-> userId, email |-> "mail", fcmToken |-> ""]
      [] store[userId] = "fcm"       -> [id |-> userId, email |-> "", fcmToken |-> "token"]

Reverse(s) == [i \in 1..Len(s) |-> s[Len(s) + 1 - i]]

Take(s, n) == IF Len(s) <= n THEN s ELSE SubSeq(s, 1, n)

\* The history query filtered by the owner of the device instead of the
\* device: the newest readings of all the owner's devices.
RecentReadingsOfOwner(store, deviceId) ==
    Take(Reverse(SelectSeq(store, LAMBDA x : x.userId = Devices[deviceId])), WindowLimit)

\* The history query sorted oldest first (sort({ timestamp: 1 })).
RecentReadingsOldestFirst(store, deviceId) ==
    Take(SelectSeq(store, LAMBDA x : x.deviceId = deviceId), WindowLimit)

\* EnergyReading.find({ deviceId }).sort({ timestamp: -1 }).limit(10):
\* the device's readings, newest first, at most WindowLimit of them.  The
\* store keeps the readings in insertion order, which is their timestamp
\* order (a reading is stamped when it is created).
RecentReadings(store, deviceId) ==
    Take(Reverse(SelectSeq(store, LAMBDA x : x.deviceId = deviceId)), WindowLimit)

\* recentReadings.reduce((sum, reading) => sum + reading.power, 0)
RECURSIVE SumPower(_)
SumPower(s) == IF s = <<>> THEN 0 ELSE Head(s).power + SumPower(Tail(s))

\* recentReadings.length > 5
EligibleStrict(recent) == Len(recent) > MinReadings

\* recentReadings.length >= 5
Eligible(recent) == Len(recent) >= MinReadings

\* averagePower = sum / recentReadings.length
AveragePower(recent) == Rat(SumPower(recent), Len(recent))

\* threshold = averagePower * 15 (the decimal point dropped)
Threshold15(averagePower) == Rat(15 * averagePower.num, averagePower.den)

\* threshold = averagePower * 1.25
Threshold125(averagePower) == Rat(5 * averagePower.num, 4 * averagePower.den)

\* threshold = averagePower * 1.5
Threshold(averagePower) == Rat(3 * averagePower.num, 2 * averagePower.den)

\* currentPower >= threshold
SpikeDetectedOrEqual(currentPower, threshold) == ~RatGt(threshold, OfInt(currentPower))

\* currentPower > threshold
SpikeDetected(currentPower, threshold) == RatGt(OfInt(currentPower), threshold)

\* x.toFixed(1) of a rational: the tenths, rounded half away from zero.
ToFixed1(q) ==
    LET a == IF q.num < 0 THEN -q.num ELSE q.num
        h == (20 * a + q.den) \div (2 * q.den)
    IN  [neg |-> q.num < 0 /\ h > 0, int |-> h \div 10, frac |-> h % 10, decimals |-> 1]

\* Two decimals by cutting the digits after the hundredths off.
ToFixed2Truncated(q) ==
    LET a == IF q.num < 0 THEN -q.num ELSE q.num
        h == (100 * a) \div q.den
    IN  [neg |-> q.num < 0 /\ h > 0, int |-> h \div 100, frac |-> h % 100, decimals |-> 2]

\* x.toFixed(2) of a rational: the digits before the point, the `decimals`
\* digits after it (frac), from the hundredths rounded half away from zero.
ToFixed2(q) ==
    LET a == IF q.num < 0 THEN -q.num ELSE q.num
        h == (200 * a + q.den) \div (2 * q.den)
    IN  [neg |-> q.num < 0 /\ h > 0, int |-> h \div 100, frac |-> h % 100, decimals |-> 2]

\* An Alert whose severity is graded by how far the power is over the
\* threshold.
NewAlertGraded(r, userId, deviceId, currentPower, averagePower, threshold) ==
    [ req |-> r,
      userId |-> userId,
      deviceId |-> deviceId,
      message |-> [ text |-> "Power spike detected!",
                    currentPower |-> ToFixed2(OfInt(currentPower)),
                    averagePower |-> ToFixed2(averagePower) ],
      alertType |-> "power_spike",
      severity |-> IF RatGt(OfInt(currentPower), Rat(4 * threshold.num, threshold.den))
                   THEN "critical" ELSE "high",
      isRead |-> FALSE,
      isResolved |-> FALSE,
      metadata |-> [ currentPower |-> currentPower,
                     averagePower |-> averagePower,
                     threshold |-> threshold ] ]

\* The document handed to Alert.create, with the read and resolved flags a
\* new Alert starts with (both false).
NewAlert(r, userId, deviceId, currentPower, averagePower, threshold) ==
    [ req |-> r,
      userId |-> userId,
      deviceId |-> deviceId,
      message |-> [ text |-> "Power spike detected!",
                    currentPower |-> ToFixed2(OfInt(currentPower)),
                    averagePower |-> ToFixed2(averagePower) ],
      alertType |-> "power_spike",
      severity |-> "high",
      isRead |-> FALSE,
      isResolved |-> FALSE,
      metadata |-> [ currentPower |-> currentPower,
                     averagePower |-> averagePower,
                     threshold |-> threshold ] ]

\* Only the user document is checked, not its contact channels.
HasContactUserOnly(user) == user # None

\* user && (user.email || user.fcmToken)
HasContact(user) == user # None /\ (user.email # "" \/ user.fcmToken # "")

\* ------------------------------------------------------------- responses
\* res.status(400).json({ success: false, errors })
BadRequest == [status |-> 400, success |-> FALSE, energyReading |-> None]

\* res.status(404).json({ success: false, message: "Device not found" })
NotFound == [status |-> 404, success |-> FALSE, energyReading |-> None]

\* res.status(201).json({ success: true, energyReading })
Created(energyReading) == [status |-> 201, success |-> TRUE, energyReading |-> energyReading]

\* catch (error) of addEnergyReading: res.status(500)
ServerError == [status |-> 500, success |-> FALSE, energyReading |-> None]

NoResponse == [status |-> 0, success |-> FALSE, energyReading |-> None]

\* The validation result is not looked at.
ValidationIgnored(b) == FALSE

\* !errors.isEmpty()
ValidationFails(b) == ~b.valid

\* checkForPowerSpike without its try/catch: the error reaches the catch of
\* addEnergyReading.
SpikeCheckUncaught(energyReading) == ServerError

\* What addEnergyReading answers when an awaited call of checkForPowerSpike
\* throws: the catch of checkForPowerSpike logs, the function returns, and
\* the handler goes on to its 201.
SpikeCheckCaught(energyReading) == Created(energyReading)

\* ------------------------------------------------------------------ Init
\* The window before the history query has returned.
NotFetched == <<None>>

NoLocals ==
    [ userId |-> "", power |-> 0, energyReading |-> None, recentReadings |-> NotFetched,
      averagePower |-> None, threshold |-> None, alert |-> None ]

NoBody == [deviceId |-> "", current |-> 0, voltage |-> 0, temperature |-> 0, valid |-> FALSE]

\* The read request before it arrives.
NoRead ==
    [ pc |-> "idle", deviceId |-> "", limit |-> 0, page |-> 0, failed |-> "none",
      readings |-> <<>>, res |-> [status |-> 0, count |-> 0, total |-> 0, readings |-> <<>>] ]

\* The chatbot request before it arrives.
NoChat ==
    [ pc |-> "idle", query |-> <<>>, words |-> {}, sample |-> 0, userId |-> "",
      handlers |-> <<>>, res |-> [status |-> 0, response |-> None] ]

\* The prediction request before it arrives, over an empty Prediction
\* collection.
NoPredict ==
    [ pc |-> "idle", deviceId |-> "", hours |-> 0, readingsData |-> <<>>,
      predictionData |-> None, calls |-> <<>>, failed |-> <<>>, predictions |-> <<>>,
      res |-> [status |-> 0] ]

\* A reading stored for "d1" before the run starts (req 0: none of the run's).
StoredReading(level) ==
    [ req |-> 0, deviceId |-> "d1", current |-> level \div 100, voltage |-> 100,
      temperature |-> 25, power |-> level, userId |-> Devices["d1"] ]

Init ==
    /\ \E n \in 0..MaxHist : \E level \in HistLevels :
          readings = [i \in 1..n |-> StoredReading(level)]
    /\ alerts = <<>>
    /\ \E k \in UserKinds : userStore = [u \in {"u1", "u2"} |-> IF u = "u1" THEN k ELSE "fcm"]
    /\ gateway = <<>>
    /\ pc = [r \in Reqs |-> "idle"]
    /\ body = [r \in Reqs |-> NoBody]
    /\ loc = [r \in Reqs |-> NoLocals]
    /\ res = [r \in Reqs |-> NoResponse]
    /\ ops = [r \in Reqs |-> <<>>]
    /\ failed = [r \in Reqs |-> "none"]
    /\ prior = [r \in Reqs |-> <<>>]
    /\ rd = NoRead
    /\ chat = NoChat
    /\ ai = NoPredict

\* --------------------------------------------------------------- actions
\* The handler sends `response` and ends.
Respond(r, response) ==
    /\ res' = [res EXCEPT ![r] = response]
    /\ pc' = [pc EXCEPT ![r] = "done"]

\* The handler issues the awaited call `op` and suspends at `at`.
Await(r, op, at) ==
    /\ ops' = [ops EXCEPT ![r] = Append(@, op)]
    /\ pc' = [pc EXCEPT ![r] = at]
    /\ res' = res

\* POST /api/energy/add arrives: validationResult, then Device.findOne is
\* awaited.  Requests are numbered in their order of arrival.
Receive(r) ==
    /\ pc[r] = "idle"
    /\ IF r = 1 THEN TRUE ELSE pc[r - 1] # "idle"
    /\ \E d \in DeviceIds, c \in Currents, v \in Voltages, ok \in BOOLEAN :
          LET b == [deviceId |-> d, current |-> c, voltage |-> v, temperature |-> 25, valid |-> ok]
          IN  /\ body' = [body EXCEPT ![r] = b]
              /\ IF ValidationFails(b)
                 THEN Respond(r, BadRequest) /\ ops' = ops
                 ELSE Await(r, "Device.findOne", "findDevice")
    /\ UNCHANGED <<readings, alerts, userStore, gateway, loc, failed, prior>>
    /\ UNCHANGED others

\* Device.findOne settles.
FindDeviceReturn(r) ==
    /\ pc[r] = "findDevice"
    /\ \/ \* the query rejects: catch of addEnergyReading
          /\ failed' = [failed EXCEPT ![r] = "Device.findOne"]
          /\ Respond(r, ServerError)
          /\ UNCHANGED <<ops, loc>>
       \/ LET device == FindOneDevice(body[r].deviceId)
          IN  IF device = None
              THEN /\ Respond(r, NotFound)
                   /\ UNCHANGED <<ops, loc, failed>>
              ELSE /\ loc' = [loc EXCEPT ![r].userId = device.userId,
                                         ![r].power = Power(body[r].current, body[r].voltage)]
                   /\ Await(r, "EnergyReading.create", "createReading")
                   /\ UNCHANGED failed
    /\ UNCHANGED <<readings, alerts, userStore, gateway, body, prior>>
    /\ UNCHANGED others

\* EnergyReading.create settles.
CreateReadingReturn(r) ==
    /\ pc[r] = "createReading"
    /\ \/ \* the insert rejects: catch of addEnergyReading
          /\ failed' = [failed EXCEPT ![r] = "EnergyReading.create"]
          /\ Respond(r, ServerError)
          /\ UNCHANGED <<readings, ops, loc, prior>>
       \/ LET energyReading ==
                [ req |-> r, deviceId |-> body[r].deviceId, current |-> body[r].current,
                  voltage |-> body[r].voltage, temperature |-> body[r].temperature,
                  power |-> loc[r].power, userId |-> loc[r].userId ]
          IN  /\ readings' = Append(readings, energyReading)
              /\ prior' = [prior EXCEPT ![r] =
                              SelectSeq(readings, LAMBDA x : x.deviceId = body[r].deviceId)]
              /\ loc' = [loc EXCEPT ![r].energyReading = energyReading]
              \* checkForPowerSpike(deviceId, power, device.userId) starts
              /\ Await(r, "EnergyReading.find", "findRecent")
              /\ UNCHANGED failed
    /\ UNCHANGED <<alerts, userStore, gateway, body>>
    /\ UNCHANGED others

\* The detector with a duplicate filter: no spike is reported for a device
\* that already has an unresolved Alert.
FindRecentReturnDedup(r) ==
    /\ pc[r] = "findRecent"
    /\ \/ /\ failed' = [failed EXCEPT ![r] = "EnergyReading.find"]
          /\ Respond(r, SpikeCheckCaught(loc[r].energyReading))
          /\ UNCHANGED <<ops, loc>>
       \/ LET recentReadings == RecentReadings(readings, body[r].deviceId)
              averagePower == AveragePower(recentReadings)
              threshold == Threshold(averagePower)
              pending == \E i \in 1..Len(alerts) :
                            alerts[i].deviceId = body[r].deviceId /\ ~alerts[i].isResolved
          IN  IF Eligible(recentReadings) /\ SpikeDetected(loc[r].power, threshold) /\ ~pending
              THEN /\ loc' = [loc EXCEPT ![r].recentReadings = recentReadings,
                                         ![r].averagePower = averagePower,
                                         ![r].threshold = threshold]
                   /\ Await(r, "Alert.create", "createAlert")
                   /\ UNCHANGED failed
              ELSE /\ loc' = IF Eligible(recentReadings)
                             THEN [loc EXCEPT ![r].recentReadings = recentReadings,
                                              ![r].averagePower = averagePower,
                                              ![r].threshold = threshold]
                             ELSE [loc EXCEPT ![r].recentReadings = recentReadings]
                   /\ Respond(r, Created(loc[r].energyReading))
                   /\ UNCHANGED <<ops, failed>>
    /\ UNCHANGED <<readings, alerts, userStore, gateway, body, prior>>
    /\ UNCHANGED others

\* EnergyReading.find(...).sort(...).limit(10) settles.
FindRecentReturn(r) ==
    /\ pc[r] = "findRecent"
    /\ \/ \* the query rejects: catch of checkForPowerSpike
          /\ failed' = [failed EXCEPT ![r] = "EnergyReading.find"]
          /\ Respond(r, SpikeCheckCaught(loc[r].energyReading))
          /\ UNCHANGED <<ops, loc>>
       \/ LET recentReadings == RecentReadings(readings, body[r].deviceId)
              averagePower == AveragePower(recentReadings)
              threshold == Threshold(averagePower)
          IN  IF Eligible(recentReadings) /\ SpikeDetected(loc[r].power, threshold)
              THEN /\ loc' = [loc EXCEPT ![r].recentReadings = recentReadings,
                                         ![r].averagePower = averagePower,
                                         ![r].threshold = threshold]
                   /\ Await(r, "Alert.create", "createAlert")
                   /\ UNCHANGED failed
              ELSE /\ loc' = IF Eligible(recentReadings)
                             THEN [loc EXCEPT ![r].recentReadings = recentReadings,
                                              ![r].averagePower = averagePower,
                                              ![r].threshold = threshold]
                             ELSE [loc EXCEPT ![r].recentReadings = recentReadings]
                   /\ Respond(r, Created(loc[r].energyReading))
                   /\ UNCHANGED <<ops, failed>>
    /\ UNCHANGED <<readings, alerts, userStore, gateway, body, prior>>
    /\ UNCHANGED others

\* Alert.create rejects and the error is swallowed on the spot: the handler
\* goes on to the owner lookup with the Alert it could not store.
CreateAlertReturnContinue(r) ==
    /\ pc[r] = "createAlert"
    /\ LET alert == NewAlert(r, loc[r].userId, body[r].deviceId, loc[r].power,
                             loc[r].averagePower, loc[r].threshold)
       IN  /\ \/ alerts' = Append(alerts, alert) /\ UNCHANGED failed
              \/ alerts' = alerts /\ failed' = [failed EXCEPT ![r] = "Alert.create"]
           /\ loc' = [loc EXCEPT ![r].alert = alert]
           /\ Await(r, "User.findById", "findUser")
    /\ UNCHANGED <<readings, userStore, gateway, body, prior>>
    /\ UNCHANGED others

\* Alert.create as an upsert: a device's unresolved Alert is overwritten by
\* the new one.
CreateAlertReturnUpsert(r) ==
    /\ pc[r] = "createAlert"
    /\ \/ /\ failed' = [failed EXCEPT ![r] = "Alert.create"]
          /\ Respond(r, SpikeCheckCaught(loc[r].energyReading))
          /\ UNCHANGED <<alerts, ops, loc>>
       \/ LET alert == NewAlert(r, loc[r].userId, body[r].deviceId, loc[r].power,
                                loc[r].averagePower, loc[r].threshold)
              open == {i \in 1..Len(alerts) :
                          alerts[i].deviceId = alert.deviceId /\ ~alerts[i].isResolved}
          IN  /\ alerts' = IF open = {}
                           THEN Append(alerts, alert)
                           ELSE [i \in 1..Len(alerts) |->
                                    IF i \in open THEN alert ELSE alerts[i]]
              /\ loc' = [loc EXCEPT ![r].alert = alert]
              /\ Await(r, "User.findById", "findUser")
              /\ UNCHANGED failed
    /\ UNCHANGED <<readings, userStore, gateway, body, prior>>
    /\ UNCHANGED others

\* Alert.create settles.
CreateAlertReturn(r) ==
    /\ pc[r] = "createAlert"
    /\ \/ \* the insert rejects: catch of checkForPowerSpike
          /\ failed' = [failed EXCEPT ![r] = "Alert.create"]
          /\ Respond(r, SpikeCheckCaught(loc[r].energyReading))
          /\ UNCHANGED <<alerts, ops, loc>>
       \/ LET alert == NewAlert(r, loc[r].userId, body[r].deviceId, loc[r].power,
                                loc[r].averagePower, loc[r].threshold)
          IN  /\ alerts' = Append(alerts, alert)
              /\ loc' = [loc EXCEPT ![r].alert = alert]
              /\ Await(r, "User.findById", "findUser")
              /\ UNCHANGED failed
    /\ UNCHANGED <<readings, userStore, gateway, body, prior>>
    /\ UNCHANGED others

\* User.findById settles.
FindUserReturn(r) ==
    /\ pc[r] = "findUser"
    /\ \/ \* the lookup rejects: catch of checkForPowerSpike
          /\ failed' = [failed EXCEPT ![r] = "User.findById"]
          /\ Respond(r, SpikeCheckCaught(loc[r].energyReading))
          /\ UNCHANGED <<gateway, ops>>
       \/ LET user == FindUserById(userStore, loc[r].userId)
          IN  IF HasContact(user)
              THEN /\ gateway' = Append(gateway,
                          [ req |-> r, email |-> user.email, fcmToken |-> user.fcmToken,
                            deviceName |-> body[r].deviceId, alertType |-> "Power Spike",
                            message |-> loc[r].alert.message,
                            energyData |-> loc[r].alert.metadata ])
                   /\ Await(r, "sendEnergyAlert", "sendAlert")
                   /\ UNCHANGED failed
              ELSE /\ Respond(r, Created(loc[r].energyReading))
                   /\ UNCHANGED <<gateway, ops, failed>>
    /\ UNCHANGED <<readings, alerts, userStore, body, loc, prior>>
    /\ UNCHANGED others

\* sendEnergyAlert resolves: "Power spike notification sent", then the 201.
SendAlertResolved(r) ==
    /\ pc[r] = "sendAlert"
    /\ Respond(r, Created(loc[r].energyReading))
    /\ UNCHANGED <<readings, alerts, userStore, gateway, body, loc, ops, failed, prior>>
    /\ UNCHANGED others

\* sendEnergyAlert rejects and the handler deletes the Alert it had created.
SendAlertRejectedRollback(r) ==
    /\ pc[r] = "sendAlert"
    /\ failed' = [failed EXCEPT ![r] = "sendEnergyAlert"]
    /\ alerts' = SelectSeq(alerts, LAMBDA a : a # loc[r].alert)
    /\ Respond(r, Created(loc[r].energyReading))
    /\ UNCHANGED <<readings, userStore, gateway, body, loc, ops, prior>>
    /\ UNCHANGED others

\* sendEnergyAlert rejects and the send is tried again.
SendAlertRejectedRetry(r) ==
    /\ pc[r] = "sendAlert"
    /\ failed' = [failed EXCEPT ![r] = "sendEnergyAlert"]
    /\ gateway' = Append(gateway, SelectSeq(gateway, LAMBDA c : c.req = r)[1])
    /\ Await(r, "sendEnergyAlert", "sendAlert")
    /\ UNCHANGED <<readings, alerts, userStore, body, loc, prior>>
    /\ UNCHANGED others

\* sendEnergyAlert rejects: the inner catch logs the error, then the 201.
SendAlertRejected(r) ==
    /\ pc[r] = "sendAlert"
    /\ failed' = [failed EXCEPT ![r] = "sendEnergyAlert"]
    /\ Respond(r, Created(loc[r].energyReading))
    /\ UNCHANGED <<readings, alerts, userStore, gateway, body, loc, ops, prior>>
    /\ UNCHANGED others

\* Requests taken one at a time: a continuation runs only when no request
\* that arrived earlier is still in flight.
StepSerialized(r) ==
    /\ \A q \in Reqs : q < r => pc[q] \in {"idle", "done"}
    /\ \/ FindDeviceReturn(r)
       \/ CreateReadingReturn(r)
       \/ FindRecentReturn(r)
       \/ CreateAlertReturn(r)
       \/ FindUserReturn(r)

\* What the program itself does once an awaited storage call has settled.
Step(r) ==
    \/ FindDeviceReturn(r)
    \/ CreateReadingReturn(r)
    \/ FindRecentReturn(r)
    \/ CreateAlertReturn(r)
    \/ FindUserReturn(r)

Next ==
    \E r \in Reqs :
        \/ Receive(r)
        \/ Step(r)
        \/ SendAlertResolved(r)
        \/ SendAlertRejected(r)

Spec == Init /\ [][Next]_vars

\* The storage calls settle and the handler's continuations run; whether and
\* when the notification gateway settles is up to the gateway.
FairSpec == Spec /\ \A r \in Reqs : WF_vars(Step(r))

\* A client that sends its requests one at a time: the next POST arrives when
\* no request is in flight.
SerialReceive(r) ==
    /\ \A q \in Reqs : pc[q] \in {"idle", "done"}
    /\ Receive(r)

SerialNext ==
    \E r \in Reqs :
        \/ SerialReceive(r)
        \/ Step(r)
        \/ SendAlertResolved(r)
        \/ SendAlertRejected(r)

SerialSpec == Init /\ [][SerialNext]_vars

\* ------------------------------------------------- GET /api/energy/:deviceId
\* The `limit` and `page` query parameters a read request is sent with (the
\* defaults of the handler are limit = 100, page = 1).
ReadLimits == {2, 100}
ReadPages == {1, 2}

Drop(s, n) == IF Len(s) <= n THEN <<>> ELSE SubSeq(s, n + 1, Len(s))

\* EnergyReading.find({ deviceId }).sort({ timestamp: -1 }).limit(limit).skip(skip)
\* with skip = (page - 1) * limit: the query skips, then limits.
FindPage(store, deviceId, limit, page) ==
    LET skip == (page - 1) * limit
    IN  Take(Drop(Reverse(SelectSeq(store, LAMBDA x : x.deviceId = deviceId)), skip), limit)

\* EnergyReading.countDocuments({ deviceId })
CountDocuments(store, deviceId) == Len(SelectSeq(store, LAMBDA x : x.deviceId = deviceId))

\* What the ingestion requests own: a read request touches none of it.
ingestion == <<readings, alerts, userStore, gateway, pc, body, loc, res, ops, failed, prior>>

\* The read request arrives and EnergyReading.find is awaited.
ReadReceive ==
    /\ rd.pc = "idle"
    /\ \E d \in {"d1", "dX"}, limit \in ReadLimits, page \in ReadPages :
          rd' = [rd EXCEPT !.pc = "find", !.deviceId = d, !.limit = limit, !.page = page]
    /\ UNCHANGED <<ingestion, chat, ai>>

\* EnergyReading.find settles.
ReadFindReturn ==
    /\ rd.pc = "find"
    /\ \/ \* the query rejects: catch of getEnergyReadings
          rd' = [rd EXCEPT !.pc = "done", !.failed = "EnergyReading.find", !.res.status = 500]
       \/ rd' = [rd EXCEPT !.pc = "count",
                           !.readings = FindPage(readings, rd.deviceId, rd.limit, rd.page)]
    /\ UNCHANGED <<ingestion, chat, ai>>

\* EnergyReading.countDocuments settles and the page is sent.
ReadCountReturn ==
    /\ rd.pc = "count"
    /\ \/ rd' = [rd EXCEPT !.pc = "done", !.failed = "EnergyReading.countDocuments",
                           !.res.status = 500]
       \/ rd' = [rd EXCEPT !.pc = "done",
                           !.res = [ status |-> 200, count |-> Len(rd.readings),
                                     total |-> CountDocuments(readings, rd.deviceId),
                                     readings |-> rd.readings ]]
    /\ UNCHANGED <<ingestion, chat, ai>>

\* Ingestion requests and one read request, over a history around the
\* detector's minimum and an owner who can be notified.
ReadInit ==
    /\ Init
    /\ Len(readings) \in {MinReadings - 1, MinReadings}
    /\ \A i \in 1..Len(readings) : readings[i].power = 100
    /\ userStore["u1"] = "email"

ReadNext ==
    \/ Next
    \/ ReadReceive
    \/ ReadFindReturn
    \/ ReadCountReturn

ReadSpec == ReadInit /\ [][ReadNext]_vars

\* ------------------------------------------------ POST /api/chatbot/query
\* The most keywords a generated query is made of.
MaxWords == 3

\* The words the routing rules look for.
KeywordChars ==
    [ power |-> <<"p", "o", "w", "e", "r">>,
      consumption |-> <<"c", "o", "n", "s", "u", "m", "p", "t", "i", "o", "n">>,
      device |-> <<"d", "e", "v", "i", "c", "e">>,
      most |-> <<"m", "o", "s", "t">>,
      highest |-> <<"h", "i", "g", "h", "e", "s", "t">>,
      temperature |-> <<"t", "e", "m", "p", "e", "r", "a", "t", "u", "r", "e">>,
      hot |-> <<"h", "o", "t">>,
      alert |-> <<"a", "l", "e", "r", "t">>,
      warning |-> <<"w", "a", "r", "n", "i", "n", "g">>,
      help |-> <<"h", "e", "l", "p">>,
      what |-> <<"w", "h", "a", "t">> ]

Keywords == DOMAIN KeywordChars

\* The order in which a generated query lists its keywords.
KeywordOrder ==
    << "what", "help", "warning", "alert", "hot", "temperature", "highest", "most",
       "device", "consumption", "power" >>

\* The sample queries of the README, in its order.
SampleQueries ==
    << <<"W", "h", "a", "t", "'", "s", " ", "m", "y", " ", "p", "o", "w", "e", "r",
         " ", "c", "o", "n", "s", "u", "m", "p", "t", "i", "o", "n", " ", "t", "o",
         "d", "a", "y", "?">>,
       <<"W", "h", "i", "c", "h", " ", "d", "e", "v", "i", "c", "e", " ", "c", "o",
         "n", "s", "u", "m", "e", "d", " ", "m", "o", "s", "t", " ", "p", "o", "w",
         "e", "r", "?">>,
       <<"S", "h", "o", "w", " ", "m", "e", " ", "t", "e", "m", "p", "e", "r", "a",
         "t", "u", "r", "e", " ", "r", "e", "a", "d", "i", "n", "g", "s">>,
       <<"D", "o", " ", "I", " ", "h", "a", "v", "e", " ", "a", "n", "y", " ", "a",
         "l", "e", "r", "t", "s", "?">>,
       <<"H", "e", "l", "p", " ", "m", "e", " ", "u", "n", "d", "e", "r", "s", "t",
         "a", "n", "d", " ", "m", "y", " ", "e", "n", "e", "r", "g", "y", " ", "u",
         "s", "a", "g", "e">> >>

UpperCase ==
    << "A", "B", "C", "D", "E", "F", "G", "H", "I", "J", "K", "L", "M",
       "N", "O", "P", "Q", "R", "S", "T", "U", "V", "W", "X", "Y", "Z" >>
LowerCase ==
    << "a", "b", "c", "d", "e", "f", "g", "h", "i", "j", "k", "l", "m",
       "n", "o", "p", "q", "r", "s", "t", "u", "v", "w", "x", "y", "z" >>

\* String.prototype.toLowerCase and toUpperCase, character by character.
ToLowerCase(s) ==
    [ i \in 1..Len(s) |->
        IF \E k \in 1..Len(UpperCase) : UpperCase[k] = s[i]
        THEN LowerCase[CHOOSE k \in 1..Len(UpperCase) : UpperCase[k] = s[i]]
        ELSE s[i] ]
ToUpperCase(s) ==
    [ i \in 1..Len(s) |->
        IF \E k \in 1..Len(LowerCase) : LowerCase[k] = s[i]
        THEN UpperCase[CHOOSE k \in 1..Len(LowerCase) : LowerCase[k] = s[i]]
        ELSE s[i] ]

\* String.prototype.trim: the string without its leading and trailing blanks.
RECURSIVE TrimStart(_)
TrimStart(s) == IF s # <<>> /\ Head(s) = " " THEN TrimStart(Tail(s)) ELSE s
Trim(s) == Reverse(TrimStart(Reverse(TrimStart(s))))

\* String.prototype.includes: sub occurs in s as a run of characters.
Includes(s, sub) ==
    \E i \in 1..(Len(s) - Len(sub) + 1) : SubSeq(s, i, i + Len(sub) - 1) = sub

\* The words of a sequence joined by single blanks.
RECURSIVE Join(_)
Join(ws) ==
    IF ws = <<>> THEN <<>>
    ELSE IF Len(ws) = 1 THEN KeywordChars[ws[1]]
    ELSE KeywordChars[Head(ws)] \o <<" ">> \o Join(Tail(ws))

\* A query sent by a client: "my <keywords> usage", the keywords of W in
\* KeywordOrder or in its reverse, as typed or in capitals.
GeneratedQuery(W, reversed, capitals) ==
    LET ordered == SelectSeq(KeywordOrder, LAMBDA k : k \in W)
        ws == IF reversed THEN Reverse(ordered) ELSE ordered
        q == <<"m", "y", " ">> \o Join(ws) \o <<" ", "u", "s", "a", "g", "e">>
    IN  IF capitals THEN ToUpperCase(q) ELSE q

\* Blank inputs: the empty string and strings of blanks.
BlankQueries == {<<>>, <<" ">>, <<" ", " ">>}

\* !query || query.trim().length === 0
QueryMissing(query) == query = <<>> \/ Len(Trim(query)) = 0

\* The rule chain with the temperature rule tested before the device rule.
RouteTemperatureFirst(lowerQuery) ==
    LET has(k) == Includes(lowerQuery, KeywordChars[k])
    IN  IF has("power") /\ has("consumption") THEN "power"
        ELSE IF has("temperature") \/ has("hot") THEN "temperature"
        ELSE IF has("device") /\ (has("most") \/ has("highest")) THEN "highest"
        ELSE IF has("alert") \/ has("warning") THEN "alert"
        ELSE IF has("help") \/ has("what") THEN "help"
        ELSE "default"

\* The if / else-if chain of handleChatbotQuery over lowerQuery: the handler
\* that is called.
Route(lowerQuery) ==
    LET has(k) == Includes(lowerQuery, KeywordChars[k])
    IN  IF has("power") /\ has("consumption") THEN "power"
        ELSE IF has("device") /\ (has("most") \/ has("highest")) THEN "highest"
        ELSE IF has("temperature") \/ has("hot") THEN "temperature"
        ELSE IF has("alert") \/ has("warning") THEN "alert"
        ELSE IF has("help") \/ has("what") THEN "help"
        ELSE "default"

\* The handlers.  Each returns the text of its answer and what it computed.
TemperatureLimit == 20

SetMax(S) == CHOOSE x \in S : \A y \in S : y <= x
SetMin(S) == CHOOSE x \in S : \A y \in S : x <= y

RECURSIVE SumTemperature(_)
SumTemperature(s) ==
    IF s = <<>> THEN 0 ELSE Head(s).temperature + SumTemperature(Tail(s))

\* handlePowerConsumptionQuery: the user's readings of today (every stored
\* reading is of today).
handlePowerConsumptionQuery(store, userId) ==
    LET todayReadings == SelectSeq(store, LAMBDA x : x.userId = userId)
        totalPower == SumPower(todayReadings)
    IN  IF Len(todayReadings) = 0
        THEN [ handler |-> "power",
               text |-> "No power consumption data available for today." ]
        ELSE [ handler |-> "power", text |-> "Today's power consumption summary:",
               total |-> ToFixed2(OfInt(totalPower)),
               average |-> ToFixed2(Rat(totalPower, Len(todayReadings))),
               peak |-> ToFixed2(OfInt(SetMax({todayReadings[i].power :
                                                  i \in 1..Len(todayReadings)}))),
               readings |-> Len(todayReadings) ]

\* handleHighestConsumptionQuery: the user's device with the greatest mean
\* power over its 10 most recent readings, if that mean is above 0.
handleHighestConsumptionQuery(store, userId) ==
    LET devices == {d \in DOMAIN Devices : Devices[d] = userId}
        avgPower(d) == AveragePower(RecentReadings(store, d))
        above == {d \in devices : /\ Len(RecentReadings(store, d)) > 0
                                  /\ RatGt(avgPower(d), OfInt(0))}
    IN  IF above = {}
        THEN [ handler |-> "highest",
               text |-> "No power consumption data available for your devices." ]
        ELSE LET highestDevice ==
                     CHOOSE d \in above : \A o \in above : ~RatGt(avgPower(o), avgPower(d))
             IN  [ handler |-> "highest",
                   text |-> "The device with highest power consumption is",
                   device |-> highestDevice,
                   average |-> ToFixed2(avgPower(highestDevice)) ]

\* handleTemperatureQuery: the user's 20 most recent readings.
handleTemperatureQuery(store, userId) ==
    LET recentReadings ==
            Take(Reverse(SelectSeq(store, LAMBDA x : x.userId = userId)), TemperatureLimit)
        temperatures == {recentReadings[i].temperature : i \in 1..Len(recentReadings)}
    IN  IF Len(recentReadings) = 0
        THEN [handler |-> "temperature", text |-> "No temperature data available."]
        ELSE [ handler |-> "temperature", text |-> "Temperature summary:",
               average |-> ToFixed1(Rat(SumTemperature(recentReadings), Len(recentReadings))),
               highest |-> ToFixed1(OfInt(SetMax(temperatures))),
               lowest |-> ToFixed1(OfInt(SetMin(temperatures))) ]

\* handleAlertQuery: the user's unread Alerts and all of the user's Alerts.
handleAlertQuery(store, userId) ==
    LET unreadAlerts == SelectSeq(store, LAMBDA a : a.userId = userId /\ ~a.isRead)
        totalAlerts == Len(SelectSeq(store, LAMBDA a : a.userId = userId))
    IN  IF Len(unreadAlerts) = 0
        THEN [ handler |-> "alert", text |-> "You have no unread alerts.",
               total |-> totalAlerts ]
        ELSE [ handler |-> "alert", text |-> "You have unread alerts",
               unread |-> Len(unreadAlerts), total |-> totalAlerts ]

getHelpResponse == [handler |-> "help", text |-> "I can help you with:"]

getDefaultResponse ==
    [handler |-> "default", text |-> "I'm not sure how to help with that."]

\* The catch of a handler: its query rejected.
Unable(handler) == [handler |-> handler, text |-> "Unable to retrieve at the moment."]

\* The handlers that await the stores.
AsyncHandlers == {"power", "highest", "temperature", "alert"}

\* res.json({ success: true, query, response, timestamp })
ChatOk(query, response) == [status |-> 200, query |-> query, response |-> response]

\* res.status(400).json({ success: false, message: "Query is required" })
ChatBadRequest == [status |-> 400, response |-> None]

\* The query arrives: the blank check, then the rule chain; getHelpResponse
\* and getDefaultResponse answer at once, the other handlers are awaited.
ChatDispatch(query, W, sample) ==
    LET lowerQuery == ToLowerCase(query)
        handler == Route(lowerQuery)
        arrived == [chat EXCEPT !.query = query, !.words = W, !.sample = sample,
                                !.userId = "u1"]
    IN  IF QueryMissing(query)
        THEN chat' = [arrived EXCEPT !.pc = "done", !.res = ChatBadRequest]
        ELSE IF handler \in AsyncHandlers
        THEN chat' = [arrived EXCEPT !.pc = "handler", !.handlers = <<handler>>]
        ELSE chat' = [arrived EXCEPT
                         !.pc = "done", !.handlers = <<handler>>,
                         !.res = ChatOk(query, IF handler = "help" THEN getHelpResponse
                                               ELSE getDefaultResponse)]

ChatReceive ==
    /\ chat.pc = "idle"
    /\ \/ \E W \in SUBSET Keywords, reversed \in BOOLEAN, capitals \in BOOLEAN :
             /\ Cardinality(W) <= MaxWords
             /\ ChatDispatch(GeneratedQuery(W, reversed, capitals), W, 0)
       \/ \E i \in 1..Len(SampleQueries) : ChatDispatch(SampleQueries[i], {}, i)
       \/ \E q \in BlankQueries : ChatDispatch(q, {}, 0)
    /\ UNCHANGED <<ingestion, rd, ai>>

\* The awaited handler returns: its answer, or the text of its catch when a
\* query of its rejected.
ChatHandlerReturn ==
    /\ chat.pc = "handler"
    /\ LET handler == chat.handlers[1]
           response ==
               CASE handler = "power" -> handlePowerConsumptionQuery(readings, chat.userId)
                 [] handler = "highest" -> handleHighestConsumptionQuery(readings, chat.userId)
                 [] handler = "temperature" -> handleTemperatureQuery(readings, chat.userId)
                 [] handler = "alert" -> handleAlertQuery(alerts, chat.userId)
       IN  \E rejected \in BOOLEAN :
              chat' = [chat EXCEPT
                          !.pc = "done",
                          !.res = ChatOk(chat.query, IF rejected THEN Unable(handler)
                                                     ELSE response)]
    /\ UNCHANGED <<ingestion, rd, ai>>

\* One chatbot request over a stored history.
ChatInit ==
    /\ Init
    /\ Len(readings) \in {0, MinReadings}
    /\ userStore["u1"] = "email"

ChatNext ==
    \/ ChatReceive
    \/ ChatHandlerReturn

ChatSpec == ChatInit /\ [][ChatNext]_vars

\* --------------------------------------------- GET /api/ai/predict/:deviceId
\* recentReadings.length < 10
MinPredictionReadings == 10
\* .limit(100)
PredictionLimit == 100

\* The `hours` query parameter (default 24).
PredictHours == {1, 24}

\* What the AI service answers when it answers: with and without a
\* modelVersion of its own.
AIAnswers ==
    { [predictedPower |-> Rat(120, 1), confidence |-> 85, modelVersion |-> "2.0"],
      [predictedPower |-> Rat(120, 1), confidence |-> 85, modelVersion |-> ""] }

\* 1 + (Math.random() - 0.5) * 0.2 for the draws 0 and 0.5.
TrendFactors == {Rat(9, 10), Rat(1, 1)}

\* recentReadings.map(...): the fields sent to the AI service.
ReadingsData(recent) ==
    [ i \in 1..Len(recent) |->
        [ current |-> recent[i].current, voltage |-> recent[i].voltage,
          temperature |-> recent[i].temperature, power |-> recent[i].power ] ]

\* The document of Prediction.create after a successful AI call.
AIPrediction(deviceId, userId, predictionData, readingsData, hours) ==
    [ deviceId |-> deviceId, userId |-> userId,
      predictedPower |-> predictionData.predictedPower,
      confidence |-> predictionData.confidence,
      modelVersion |-> IF predictionData.modelVersion = "" THEN "1.0"
                       ELSE predictionData.modelVersion,
      inputData |-> [ readingsCount |-> Len(readingsData), lastReading |-> readingsData[1],
                      predictionHours |-> hours ],
      metadata |-> [type |-> "ai"] ]

\* The document of createMockPrediction: the mean power of readingsData times
\* the trend factor.
MockPrediction(deviceId, userId, readingsData, hours, trendFactor) ==
    LET averagePower == Rat(SumPower(readingsData), Len(readingsData))
    IN  [ deviceId |-> deviceId, userId |-> userId,
          predictedPower |-> Rat(averagePower.num * trendFactor.num,
                                 averagePower.den * trendFactor.den),
          confidence |-> 60,
          modelVersion |-> "mock-1.0",
          inputData |-> [ readingsCount |-> Len(readingsData),
                          lastReading |-> readingsData[1], predictionHours |-> hours ],
          metadata |-> [type |-> "mock_prediction"] ]

\* The awaited call `op` is issued and the handler suspends at `at`.
PredictAwait(a, op, at) == [a EXCEPT !.pc = at, !.calls = Append(@, op)]

\* The call the handler is suspended at threw.
PredictThrew(a) == [a EXCEPT !.failed = Append(@, a.calls[Len(a.calls)])]

\* res.status(500).json({ success: false, message: "Server error" })
PredictServerError == [status |-> 500, success |-> FALSE, message |-> "Server error"]

\* The request arrives and EnergyReading.find is awaited.
PredictReceive ==
    /\ ai.pc = "idle"
    /\ \E d \in {"d1", "d2"}, hours \in PredictHours :
          ai' = [PredictAwait(ai, "EnergyReading.find", "find") EXCEPT
                    !.deviceId = d, !.hours = hours]
    /\ UNCHANGED <<ingestion, rd, chat>>

\* EnergyReading.find settles: 400 under 10 readings, else the AI service is
\* called.
PredictFindReturn ==
    /\ ai.pc = "find"
    /\ \/ ai' = [PredictThrew(ai) EXCEPT !.pc = "done", !.res = PredictServerError]
       \/ LET recentReadings ==
                  Take(Reverse(SelectSeq(readings, LAMBDA x : x.deviceId = ai.deviceId)),
                       PredictionLimit)
          IN  IF Len(recentReadings) < MinPredictionReadings
              THEN ai' = [ai EXCEPT !.pc = "done",
                                    !.res = [ status |-> 400, success |-> FALSE,
                                              message |-> "Insufficient data for prediction." ]]
              ELSE ai' = [PredictAwait(ai, "axios.post", "aiCall") EXCEPT
                             !.readingsData = ReadingsData(recentReadings)]
    /\ UNCHANGED <<ingestion, rd, chat>>

\* axios.post settles: with the service's answer, or rejected (the inner
\* catch calls createMockPrediction).
AIServiceReturn ==
    /\ ai.pc = "aiCall"
    /\ \/ ai' = PredictAwait(PredictThrew(ai), "Prediction.create(mock)", "createMock")
       \/ \E predictionData \in AIAnswers :
             ai' = [PredictAwait(ai, "Prediction.create", "createPrediction") EXCEPT
                       !.predictionData = predictionData]
    /\ UNCHANGED <<ingestion, rd, chat>>

\* Prediction.create of the AI's prediction settles: stored and sent, or
\* rejected inside the same try as the AI call (the inner catch calls
\* createMockPrediction).
CreatePredictionReturn ==
    /\ ai.pc = "createPrediction"
    /\ LET prediction == AIPrediction(ai.deviceId, "u1", ai.predictionData,
                                      ai.readingsData, ai.hours)
       IN  \/ ai' = [ai EXCEPT !.pc = "done",
                               !.predictions = Append(@, prediction),
                               !.res = [ status |-> 200, success |-> TRUE,
                                         prediction |-> prediction,
                                         aiResponse |-> ai.predictionData ]]
           \/ ai' = PredictAwait(PredictThrew(ai), "Prediction.create(mock)", "createMock")
    /\ UNCHANGED <<ingestion, rd, chat>>

\* Prediction.create of createMockPrediction settles: stored and sent with
\* the "unavailable" message, or rejected (the outer catch answers 500).
CreateMockReturn ==
    /\ ai.pc = "createMock"
    /\ \/ \E trendFactor \in TrendFactors :
             LET mockPrediction == MockPrediction(ai.deviceId, "u1", ai.readingsData,
                                                  ai.hours, trendFactor)
             IN  ai' = [ai EXCEPT
                           !.pc = "done",
                           !.predictions = Append(@, mockPrediction),
                           !.res = [ status |-> 200, success |-> TRUE,
                                     prediction |-> mockPrediction,
                                     message |->
                                       "AI service unavailable, using mock prediction" ]]
       \/ ai' = [PredictThrew(ai) EXCEPT !.pc = "done", !.res = PredictServerError]
    /\ UNCHANGED <<ingestion, rd, chat>>

\* One prediction request over a history of 9 or 10 readings of d1.
PredictInit ==
    /\ Init
    /\ Len(readings) \in {MinPredictionReadings - 1, MinPredictionReadings}

PredictNext ==
    \/ PredictReceive
    \/ PredictFindReturn
    \/ AIServiceReturn
    \/ CreatePredictionReturn
    \/ CreateMockReturn

PredictSpec == PredictInit /\ [][PredictNext]_vars

\* ---------------------------------------------------------------- claims
Done(r) == pc[r] = "done"

\* The request has inserted its reading.
Inserted(r) == loc[r].energyReading # None

\* The Alerts, readings and gateway calls that request r made.
AlertsOf(r) == SelectSeq(alerts, LAMBDA a : a.req = r)
ReadingsOf(r) == SelectSeq(readings, LAMBDA x : x.req = r)
CallsOf(r) == SelectSeq(gateway, LAMBDA c : c.req = r)

\* The min(n, 10) most recent readings of the device stored before request r
\* inserted its own, newest first, and their mean power.
PriorWindow(r) == Take(Reverse(prior[r]), WindowLimit)
PriorMean(r) == Rat(SumPower(PriorWindow(r)), Len(PriorWindow(r)))

\* q is 1.5 times m.
IsOneAndAHalfTimes(q, m) == 2 * q.num * m.den = 3 * m.num * q.den

\* The detection of request r ran to its end without a storage failure.
DetectionRan(r) ==
    /\ Done(r)
    /\ Inserted(r)
    /\ failed[r] \notin {"EnergyReading.find", "Alert.create"}

\* C1: an ingestion creates an Alert only if at least 5 readings of its
\* device were stored before it inserted its own reading.
C1_AlertNeedsFivePrior ==
    \A r \in Reqs : AlertsOf(r) # <<>> => Len(prior[r]) >= MinReadings

\* C2: on a device with n >= 5 stored readings, a new reading whose power
\* exceeds 1.5 times the mean of the min(n, 10) most recent stored readings
\* makes the ingestion create an Alert whose threshold is 1.5 times that mean.
C2_SpikeOverPriorMean ==
    \A r \in Reqs :
        ( /\ DetectionRan(r)
          /\ Len(prior[r]) >= MinReadings
          /\ RatGt(OfInt(loc[r].power), Threshold(PriorMean(r))) )
        => \E i \in 1..Len(alerts) :
              /\ alerts[i].req = r
              /\ IsOneAndAHalfTimes(alerts[i].metadata.threshold, PriorMean(r))

\* C3: the averagePower of an Alert is the mean of the readings stored before
\* the triggering reading; after five readings of power 100, a reading of
\* power 200 creates exactly one Alert, with currentPower 200, averagePower
\* 100 and threshold 150.
C3_AverageExcludesTrigger ==
    \A r \in Reqs :
        /\ \A i \in 1..Len(alerts) :
              alerts[i].req = r => RatEq(alerts[i].metadata.averagePower, PriorMean(r))
        /\ ( /\ DetectionRan(r)
             /\ Len(prior[r]) = 5
             /\ \A i \in 1..5 : prior[r][i].power = 100
             /\ loc[r].power = 200 )
           => /\ Len(AlertsOf(r)) = 1
              /\ AlertsOf(r)[1].metadata.currentPower = 200
              /\ RatEq(AlertsOf(r)[1].metadata.averagePower, OfInt(100))
              /\ RatEq(AlertsOf(r)[1].metadata.threshold, OfInt(150))

\* C4: every Alert's metadata.currentPower is the power (current * voltage) of
\* the reading inserted by the same request, and its metadata.threshold is
\* 1.5 times its metadata.averagePower.
C4_AlertMetadata ==
    \A i \in 1..Len(alerts) :
        LET a == alerts[i]
        IN  /\ Len(ReadingsOf(a.req)) = 1
            /\ a.metadata.currentPower = ReadingsOf(a.req)[1].power
            /\ a.metadata.currentPower =
                  ReadingsOf(a.req)[1].current * ReadingsOf(a.req)[1].voltage
            /\ IsOneAndAHalfTimes(a.metadata.threshold, a.metadata.averagePower)

\* An Alert of a reading with positive power is stored.
C4_Witness ==
    \E i \in 1..Len(alerts) :
        alerts[i].metadata.currentPower = 200 /\ alerts[i].metadata.averagePower.num > 0

\* C5: once a request has inserted its reading, the only response it sends is
\* the 201 carrying that reading, whichever later call fails (history query,
\* Alert insert, owner lookup, notification send).
C5_CreatedDespiteFailures ==
    \A r \in Reqs :
        Inserted(r) =>
            /\ Len(ReadingsOf(r)) = 1
            /\ res[r] \in {NoResponse, Created(ReadingsOf(r)[1])}
            /\ Done(r) => res[r].status = 201

\* Two requests got their 201 although the history query of one and the
\* notification send of the other failed.
C5_Witness ==
    \E r, q \in Reqs :
        /\ Done(r) /\ failed[r] = "EnergyReading.find" /\ res[r].status = 201
        /\ Done(q) /\ failed[q] = "sendEnergyAlert" /\ res[q].status = 201

\* C6: when sendEnergyAlert fails, the Alert persisted by the request is still
\* stored, unchanged, and the request is answered 201.
C6_SendFailureKeepsAlert ==
    \A r \in Reqs :
        failed[r] = "sendEnergyAlert" =>
            /\ res[r].status = 201
            /\ AlertsOf(r) = <<loc[r].alert>>
            /\ loc[r].alert.metadata.currentPower = loc[r].power

\* A notification send has failed.
C6_Witness == \E r \in Reqs : failed[r] = "sendEnergyAlert" /\ Len(alerts) > 0

\* C7: once the Alert is persisted, the 201 is eventually sent, whether or not
\* the owner lookup and the notification send ever complete.
C7_ResponseNotBlocked ==
    \A r \in Reqs : (pc[r] \in {"findUser", "sendAlert"}) ~> (res[r].status = 201)

\* C8: no step of a request waits for or excludes another request: whenever a
\* request is suspended at an await, its continuation can run, whatever the
\* other requests are doing.
C8_NoSerialization ==
    \A r \in Reqs :
        pc[r] \notin {"idle", "done"} => ENABLED (Step(r) \/ SendAlertResolved(r))

\* Two overlapping requests for one device have read the same history window
\* (the same readings, both requests' own included) and each created an Alert.
C8_Witness ==
    /\ Len(alerts) = 2
    /\ alerts[1].req # alerts[2].req
    /\ alerts[1].deviceId = alerts[2].deviceId
    /\ alerts[1].metadata.averagePower = alerts[2].metadata.averagePower
    /\ alerts[1].metadata.averagePower.den < WindowLimit
    /\ alerts[1].metadata.averagePower.den = Len(prior[alerts[1].req]) + 2

\* C9: a request that names an unregistered deviceId is answered 404 when the
\* device lookup returns (500 if the lookup itself throws) and makes no call
\* other than that lookup: no reading, no history query, no Alert, no
\* notification.
C9_UnknownDevice ==
    \A r \in Reqs :
        ( /\ pc[r] # "idle"
          /\ ~ValidationFails(body[r])
          /\ body[r].deviceId \notin DOMAIN Devices )
        => /\ ops[r] = <<"Device.findOne">>
           /\ ReadingsOf(r) = <<>> /\ AlertsOf(r) = <<>> /\ CallsOf(r) = <<>>
           /\ Done(r) => IF failed[r] = "none" THEN res[r] = NotFound
                                              ELSE res[r] = ServerError

\* A request for the unregistered device has been answered 404.
C9_Witness ==
    \E r \in Reqs : Done(r) /\ body[r].deviceId = "dX" /\ res[r].status = 404

\* C10: a request that fails validation is answered 400 and issues no call at
\* all: no device lookup, no reading, no spike check, no Alert, no
\* notification.
C10_InvalidPayload ==
    \A r \in Reqs :
        (pc[r] # "idle" /\ ~body[r].valid)
        => /\ Done(r)
           /\ res[r] = BadRequest
           /\ ops[r] = <<>>
           /\ ReadingsOf(r) = <<>> /\ AlertsOf(r) = <<>> /\ CallsOf(r) = <<>>

\* A request with a malformed payload has been answered 400.
C10_Witness == \E r \in Reqs : Done(r) /\ ~body[r].valid /\ res[r].status = 400

\* C11: a failing storage call abandons the rest of the detection cycle.  If
\* the history query fails, no Alert is created and nothing more is called;
\* if the Alert insert fails, no owner lookup and no notification follow.  In
\* both cases the reading the request stored is kept.
C11_StorageFailureAbandonsCycle ==
    \A r \in Reqs :
        /\ failed[r] = "EnergyReading.find" =>
              /\ AlertsOf(r) = <<>> /\ CallsOf(r) = <<>>
              /\ ops[r] = <<"Device.findOne", "EnergyReading.create", "EnergyReading.find">>
              /\ ReadingsOf(r) = <<loc[r].energyReading>>
        /\ failed[r] = "Alert.create" =>
              /\ AlertsOf(r) = <<>> /\ CallsOf(r) = <<>>
              /\ ops[r] = <<"Device.findOne", "EnergyReading.create", "EnergyReading.find",
                            "Alert.create">>
              /\ ReadingsOf(r) = <<loc[r].energyReading>>

\* One request's history query and the other's Alert insert have failed.
C11_Witness ==
    \E r, q \in Reqs :
        /\ Done(r) /\ failed[r] = "EnergyReading.find"
        /\ Done(q) /\ failed[q] = "Alert.create"

\* The terminal states of a detection cycle.  NoSpike: the window was
\* evaluated and no spike was found.  AlertPersisted: the Alert of the cycle
\* is stored.  NotificationAttempted: the Alert is stored and the notifier
\* has run (the owner lookup was issued).
\* Request r has issued the awaited call `op`.
Issued(r, op) == \E i \in 1..Len(ops[r]) : ops[r][i] = op
NoSpike(r) == loc[r].recentReadings # NotFetched /\ ~Issued(r, "Alert.create")
AlertPersisted(r) == loc[r].alert # None /\ AlertsOf(r) = <<loc[r].alert>>
NotificationAttempted(r) ==
    /\ AlertPersisted(r)
    /\ Issued(r, "User.findById")

C13_NoContactNoSend ==
    \A r \in Reqs :
        ( /\ AlertPersisted(r)
          /\ userStore[loc[r].userId] \in {"absent", "nocontact"} )
        => /\ CallsOf(r) = <<>>
           /\ ~Issued(r, "sendEnergyAlert")
           /\ pc[r] \in {"findUser", "done"}
           /\ (Done(r) /\ failed[r] = "none") => res[r].status = 201

\* The owner has no contact channel: the cycle has ended after the lookup,
\* with its Alert stored.
C13_Witness ==
    \E r \in Reqs :
        /\ Done(r) /\ failed[r] = "none" /\ AlertPersisted(r)
        /\ userStore[loc[r].userId] = "nocontact"
        /\ ops[r][Len(ops[r])] = "User.findById"

\* C14: when the device has at least 5 stored readings and all of them have
\* power 0, ingesting a reading of positive power creates an Alert (given
\* that the history query and the Alert insert do not fail).
C14_ZeroBaselineSpikes ==
    \A r \in Reqs :
        ( /\ DetectionRan(r)
          /\ Len(prior[r]) >= MinReadings
          /\ \A i \in 1..Len(readings) :
                (readings[i].deviceId = body[r].deviceId /\ readings[i].req # r)
                    => readings[i].power = 0
          /\ loc[r].power > 0 )
        => /\ Len(AlertsOf(r)) = 1
           /\ AlertsOf(r)[1].metadata.currentPower = loc[r].power

\* A reading of power 100 has raised an Alert over five stored readings of
\* power 0.
C14_Witness ==
    \E r \in Reqs :
        /\ Done(r) /\ loc[r].power = 100 /\ AlertsOf(r) # <<>>
        /\ Len(prior[r]) = MinReadings
        /\ \A i \in 1..Len(prior[r]) : prior[r][i].power = 0

\* The power values of a fetched window, newest first.
PowersOf(window) == [i \in 1..Len(window) |-> window[i].power]

\* Request r has evaluated its window.
Evaluated(r) == loc[r].recentReadings # NotFetched

\* C15: two evaluations that fetched windows with the same power values and
\* were given the same currentPower make the same decision and compute the
\* same averagePower and threshold, whatever Alerts are stored and whatever
\* happened to earlier notifications.
C15_DecisionDependsOnWindowOnly ==
    \A r, q \in Reqs :
        ( /\ Evaluated(r) /\ Evaluated(q)
          /\ PowersOf(loc[r].recentReadings) = PowersOf(loc[q].recentReadings)
          /\ loc[r].power = loc[q].power )
        => /\ loc[r].averagePower = loc[q].averagePower
           /\ loc[r].threshold = loc[q].threshold
           /\ Issued(r, "Alert.create") <=> Issued(q, "Alert.create")

\* A second evaluation of the same window and power decided "spike" again
\* although the first one's Alert was already stored and its notification
\* had failed.
C15_Witness ==
    \E r, q \in Reqs :
        /\ r # q
        /\ Done(r) /\ failed[r] = "sendEnergyAlert" /\ AlertsOf(r) # <<>>
        /\ pc[q] = "createAlert"
        /\ PowersOf(loc[r].recentReadings) = PowersOf(loc[q].recentReadings)
        /\ loc[r].power = loc[q].power

\* C16: the reading store is append-only: a request answered with 201 has
\* inserted exactly one reading, with power = current * voltage and the userId
\* of the device it names; a request answered with 400, 404 or 500 has inserted
\* none; and no step of an ingestion or of a read request changes or removes a
\* reading that is already stored.
InsertsMatchStatus ==
    \A r \in Reqs :
        /\ res[r].status = 201 =>
              /\ Len(ReadingsOf(r)) = 1
              /\ ReadingsOf(r)[1].power = body[r].current * body[r].voltage
              /\ ReadingsOf(r)[1].deviceId = body[r].deviceId
              /\ body[r].deviceId \in DOMAIN Devices
              /\ ReadingsOf(r)[1].userId = Devices[body[r].deviceId]
        /\ res[r].status \in {400, 404, 500} => Len(ReadingsOf(r)) = 0

StoredReadingsKept ==
    /\ Len(readings') >= Len(readings)
    /\ SubSeq(readings', 1, Len(readings)) = readings

C16_ReadingsAppendOnly == [][StoredReadingsKept /\ InsertsMatchStatus']_vars

\* A read request returned a page holding a reading of the run while one
\* ingestion was answered with 201 and another with 500.
C16_Witness ==
    /\ rd.res.status = 200
    /\ \E i \in 1..Len(rd.res.readings) : rd.res.readings[i].req # 0
    /\ \E r, q \in Reqs : res[r].status = 201 /\ res[q].status = 500

\* C17: every Alert of the spike pipeline has alertType power_spike and
\* severity high, however far its currentPower is over the threshold, and
\* carries the deviceId of the request that created it and the userId of the
\* device that owns the triggering reading.
C17_AlertKindAndOwner ==
    \A i \in 1..Len(alerts) :
        LET a == alerts[i]
        IN  /\ a.alertType = "power_spike"
            /\ a.severity = "high"
            /\ a.deviceId = body[a.req].deviceId
            /\ Len(ReadingsOf(a.req)) = 1
            /\ a.deviceId = ReadingsOf(a.req)[1].deviceId
            /\ a.userId = Devices[ReadingsOf(a.req)[1].deviceId]

\* Two Alerts are stored, one of a reading just over its threshold and one of
\* a reading more than four times over it.
C17_Witness ==
    \E i, j \in 1..Len(alerts) :
        LET a == alerts[i]
            b == alerts[j]
        IN  /\ a.metadata.threshold.num > 0
            /\ ~RatGt(OfInt(a.metadata.currentPower),
                      Rat(2 * a.metadata.threshold.num, a.metadata.threshold.den))
            /\ RatGt(OfInt(b.metadata.currentPower),
                     Rat(4 * b.metadata.threshold.num, b.metadata.threshold.den))

\* C18: the ingestion pipeline only adds Alerts: no step changes a field of an
\* Alert that is already stored (message, metadata, isRead, isResolved among
\* them) and none removes an Alert, also when a spike is detected for a device
\* that already has an unresolved Alert.
C18_AlertsOnlyAdded ==
    [][ /\ Len(alerts') >= Len(alerts)
        /\ \A i \in 1..Len(alerts) : alerts'[i] = alerts[i] ]_vars

\* A second spike was detected for a device whose first Alert is unresolved:
\* both Alerts are stored, of different requests.
C18_Witness ==
    /\ Len(alerts) = 2
    /\ alerts[1].deviceId = alerts[2].deviceId
    /\ alerts[1].req # alerts[2].req
    /\ ~alerts[1].isResolved /\ ~alerts[1].isRead

\* The text t is a decimal numeral with exactly two digits after the point
\* that is the non-negative rational x rounded to the nearest hundredth.
TwoDecimalsOf(t, x) ==
    /\ t.decimals = 2
    /\ t.int >= 0 /\ t.frac \in 0..99
    /\ ~t.neg
    /\ LET h == 100 * t.int + t.frac
           d == 100 * x.num - h * x.den
       IN  2 * (IF d < 0 THEN -d ELSE d) <= x.den

\* C19: the message of every Alert of the spike pipeline contains the
\* currentPower and the averagePower of the detection, each written with
\* exactly 2 decimal places.
C19_MessageTwoDecimals ==
    \A i \in 1..Len(alerts) :
        LET a == alerts[i]
        IN  /\ DOMAIN a.message = {"text", "currentPower", "averagePower"}
            /\ TwoDecimalsOf(a.message.currentPower, OfInt(ReadingsOf(a.req)[1].power))
            /\ TwoDecimalsOf(a.message.averagePower, a.metadata.averagePower)

\* An Alert whose averagePower has more than two decimal places is stored.
C19_Witness ==
    \E i \in 1..Len(alerts) :
        LET m == alerts[i].metadata.averagePower
        IN  (100 * m.num) % m.den # 0

\* The rules in their order, as conditions on the keywords W of a query.
RuleOrder == <<"power", "highest", "temperature", "alert", "help">>

RuleMatches(rule, W) ==
    CASE rule = "power" -> "power" \in W /\ "consumption" \in W
      [] rule = "highest" -> "device" \in W /\ ("most" \in W \/ "highest" \in W)
      [] rule = "temperature" -> "temperature" \in W \/ "hot" \in W
      [] rule = "alert" -> "alert" \in W \/ "warning" \in W
      [] rule = "help" -> "help" \in W \/ "what" \in W

\* The handlers the README's sample queries are documented to reach.
SampleHandlers == <<"power", "highest", "temperature", "alert", "help">>

Window(r) == loc[r].recentReadings
WindowSum(r) == SumPower(Window(r))

\* C21: the minimum-history boundary is inclusive on the fetched window: with
\* exactly 5 readings fetched the insert of an Alert is issued iff
\* currentPower > 1.5 * (mean of the 5), and with 4 or fewer fetched no Alert
\* is created whatever currentPower is.
C21_FiveFetchedIsEnough ==
    \A r \in Reqs :
        Evaluated(r) =>
            /\ Len(Window(r)) = 5 =>
                  (Issued(r, "Alert.create") <=> 2 * 5 * loc[r].power > 3 * WindowSum(r))
            /\ Len(Window(r)) <= 4 =>
                  ~Issued(r, "Alert.create") /\ AlertsOf(r) = <<>>

\* One request fetched 4 readings, its own of power 500 among them, and
\* stored no Alert; another fetched exactly 5 and stored one.
C21_Witness ==
    \E r, q \in Reqs :
        /\ Done(r) /\ Evaluated(r) /\ Len(Window(r)) = 4 /\ loc[r].power = 500
        /\ AlertsOf(r) = <<>>
        /\ Evaluated(q) /\ Len(Window(q)) = 5 /\ AlertsOf(q) # <<>>

\* C22: the comparison is strict: with at least 5 readings fetched and
\* currentPower exactly 1.5 times the window's mean, no Alert is created and
\* no notification is sent; the insert of an Alert is issued only when
\* currentPower is strictly greater.
C22_StrictComparison ==
    \A r \in Reqs :
        Evaluated(r) =>
            /\ ( /\ Len(Window(r)) >= 5
                 /\ 2 * Len(Window(r)) * loc[r].power = 3 * WindowSum(r) )
               => /\ ~Issued(r, "Alert.create")
                  /\ AlertsOf(r) = <<>>
                  /\ CallsOf(r) = <<>>
            /\ Issued(r, "Alert.create") =>
                  2 * Len(Window(r)) * loc[r].power > 3 * WindowSum(r)

\* A request of positive power exactly 1.5 times the mean of its window was
\* answered.
C22_Witness ==
    \E r \in Reqs :
        /\ Done(r) /\ Evaluated(r) /\ res[r].status = 201
        /\ Len(Window(r)) >= 5
        /\ loc[r].power > 0
        /\ 2 * Len(Window(r)) * loc[r].power = 3 * WindowSum(r)

\* The awaited calls of a request that runs to the notification, in order.
CallOrder ==
    << "Device.findOne", "EnergyReading.create", "EnergyReading.find", "Alert.create",
       "User.findById", "sendEnergyAlert" >>

\* C23: the steps of a detection cycle happen in a fixed order: the reading is
\* inserted before the history query is issued, the Alert is persisted before
\* the owner lookup is issued, and the gateway is called only after the Alert
\* of the same cycle has been persisted; no notification is sent in a cycle
\* that detected no spike or whose Alert insert failed.
C23_StepOrder ==
    \A r \in Reqs :
        /\ Len(ops[r]) <= Len(CallOrder)
        /\ ops[r] = SubSeq(CallOrder, 1, Len(ops[r]))
        /\ Issued(r, "EnergyReading.find") => Len(ReadingsOf(r)) = 1
        /\ Issued(r, "User.findById") => Len(AlertsOf(r)) = 1
        /\ CallsOf(r) # <<>> =>
              /\ Len(AlertsOf(r)) = 1
              /\ Issued(r, "Alert.create")
              /\ 2 * Len(Window(r)) * loc[r].power > 3 * WindowSum(r)
        /\ (NoSpike(r) \/ failed[r] = "Alert.create") => CallsOf(r) = <<>>

\* One cycle called the gateway for its stored Alert; in another the Alert
\* insert failed and the request was answered without a gateway call.
C23_Witness ==
    \E r, q \in Reqs :
        /\ Done(r) /\ CallsOf(r) # <<>> /\ AlertsOf(r) # <<>>
        /\ Done(q) /\ failed[q] = "Alert.create" /\ CallsOf(q) = <<>>

\* Stores that agree with `store` on the readings of deviceId and differ in
\* the readings of other devices: those dropped, those with another power, and
\* one more reading of another device of the same owner stored last.
OtherDevicesVaried(store, deviceId) ==
    LET foreign == [ req |-> 0, deviceId |-> "other", current |-> 9, voltage |-> 100,
                     temperature |-> 25, power |-> 900, userId |-> Devices[deviceId] ]
    IN  { SelectSeq(store, LAMBDA x : x.deviceId = deviceId),
          [i \in 1..Len(store) |->
              IF store[i].deviceId = deviceId THEN store[i]
              ELSE [store[i] EXCEPT !.power = 900 - @]],
          Append(store, foreign) }

\* C24: detection is isolated per device: the window is at most the 10 newest
\* readings of the ingested deviceId, and a run over a store that differs only
\* in the readings of other devices (also of the same owner) fetches the same
\* powers and makes the same decision with the same averagePower and
\* threshold.
C24_DeviceIsolation ==
    [][ \A r \in Reqs :
          (~Evaluated(r) /\ Evaluated(r)') =>
              /\ Len(Window(r)') <= 10
              /\ \A i \in 1..Len(Window(r)') : Window(r)'[i].deviceId = body[r].deviceId
              /\ \A alt \in OtherDevicesVaried(readings, body[r].deviceId) :
                    LET w == RecentReadings(alt, body[r].deviceId)
                    IN  /\ PowersOf(w) = PowersOf(Window(r)')
                        /\ Issued(r, "Alert.create")' <=>
                              (Len(w) >= 5 /\ 2 * Len(w) * loc[r].power > 3 * SumPower(w))
                        /\ Len(w) >= 5 =>
                              /\ loc'[r].averagePower = AveragePower(w)
                              /\ loc'[r].threshold = Threshold(AveragePower(w))
      ]_vars

\* An Alert was stored for d1 although a reading of power 500 of another
\* device had been stored after d1's history and before the triggering one.
C24_Witness ==
    \E r \in Reqs, i, j \in 1..Len(readings) :
        /\ AlertsOf(r) # <<>> /\ body[r].deviceId = "d1"
        /\ i < j /\ readings[j].req = r
        /\ readings[i].deviceId = "d2" /\ readings[i].power = 500

\* The prediction request issued the call `op`; the call `op` threw.
PredictIssued(op) == \E i \in 1..Len(ai.calls) : ai.calls[i] = op
PredictFailed(op) == \E i \in 1..Len(ai.failed) : ai.failed[i] = op

\* The history query of the prediction request returned n readings.
PredictFetched ==
    PredictIssued("EnergyReading.find") /\ ~PredictFailed("EnergyReading.find")
StoredFor(deviceId) == Len(SelectSeq(readings, LAMBDA x : x.deviceId = deviceId))

\* C25: with at least 10 stored readings, a failed AI service call degrades
\* to a mock: the answer is success:true without an error status and exactly
\* one Prediction, of modelVersion mock-1.0, is persisted; with fewer than 10
\* stored readings the answer is 400, the AI service is not called and no
\* Prediction is persisted.
C25_MockOnAIFailure ==
    (ai.pc = "done" /\ PredictFetched) =>
        /\ (StoredFor(ai.deviceId) >= 10 /\ PredictFailed("axios.post")) =>
              /\ ai.res.status = 200 /\ ai.res.success
              /\ Len(ai.predictions) = 1
              /\ ai.predictions[1].modelVersion = "mock-1.0"
        /\ StoredFor(ai.deviceId) < 10 =>
              /\ ai.res.status = 400
              /\ ~PredictIssued("axios.post")
              /\ ai.predictions = <<>>

\* The response carries a mock prediction with the "unavailable" message.
MockAnswered ==
    /\ ai.res.status = 200
    /\ "message" \in DOMAIN ai.res
    /\ ai.res.prediction.modelVersion = "mock-1.0"

\* C30: a mock prediction with the message 'AI service unavailable, using
\* mock prediction' is returned only when the call to the AI service failed;
\* when that call succeeded the response carries no mock prediction.
C30_MockOnlyOnAIFailure ==
    ai.pc = "done" =>
        /\ MockAnswered => PredictFailed("axios.post")
        /\ (PredictIssued("axios.post") /\ ~PredictFailed("axios.post")) => ~MockAnswered

\* C26: when the requests run one at a time, the window the detector averages
\* has the request's own reading as its newest element, the recorded
\* averagePower (and with it the threshold) is the mean of currentPower and
\* of the up to 9 newest earlier readings, and a reading is evaluated when
\* only 4 earlier readings exist.
C26_WindowHoldsOwnReading ==
    \A r \in Reqs :
        Evaluated(r) =>
            /\ Len(Window(r)) >= 1
            /\ Window(r)[1] = loc[r].energyReading
            /\ LET earlier == Take(Reverse(prior[r]), WindowLimit - 1)
               IN  /\ Window(r) = <<loc[r].energyReading>> \o earlier
                   /\ Len(prior[r]) >= 4 =>
                         /\ loc[r].averagePower # None
                         /\ loc[r].averagePower.num * (Len(earlier) + 1) =
                               (loc[r].power + SumPower(earlier)) * loc[r].averagePower.den
                         /\ IsOneAndAHalfTimes(loc[r].threshold, loc[r].averagePower)

\* A reading of power 500 over exactly 4 earlier readings of power 100 was
\* evaluated and got an Alert whose averagePower is 900/5.
C26_Witness ==
    \E r \in Reqs :
        /\ Len(prior[r]) = 4 /\ \A i \in 1..4 : prior[r][i].power = 100
        /\ loc[r].power = 500
        /\ AlertsOf(r) # <<>>
        /\ RatEq(AlertsOf(r)[1].metadata.averagePower, OfInt(180))

\* A reading of power p over the window w (p's reading included) is a spike.
IsSpike(p, w) == Len(w) >= 5 /\ 2 * Len(w) * p > 3 * SumPower(w)

\* The powers of the device's newest readings after `hist` (oldest first)
\* was extended by readings of the powers `new` (oldest first).
PowerWindow(hist, new) ==
    LET all == [i \in 1..Len(hist) |-> [power |-> hist[i].power]] \o
               [i \in 1..Len(new) |-> [power |-> new[i]]]
    IN  Take(Reverse(all), WindowLimit)

\* The number of requests that decided "spike" when the readings of powers p
\* and then q are ingested over hist one after the other, and when both are
\* inserted before either history query.
SerialSpikes(hist, p, q) ==
    (IF IsSpike(p, PowerWindow(hist, <<p>>)) THEN 1 ELSE 0)
    + (IF IsSpike(q, PowerWindow(hist, <<p, q>>)) THEN 1 ELSE 0)
ConcurrentSpikes(hist, p, q) ==
    (IF IsSpike(p, PowerWindow(hist, <<p, q>>)) THEN 1 ELSE 0)
    + (IF IsSpike(q, PowerWindow(hist, <<p, q>>)) THEN 1 ELSE 0)

\* The number of requests that went on to insert an Alert.
SpikesDecided == Cardinality({r \in Reqs : Issued(r, "Alert.create")})

\* Requests 1 and 2 are for one device and both evaluated their windows.
BothEvaluated ==
    /\ Evaluated(1) /\ Evaluated(2)
    /\ body[1].deviceId = body[2].deviceId

\* The device's readings stored before either request inserted its own.
HistoryBefore == SelectSeq(prior[1], LAMBDA x : x.req # 2)

\* Request 1 had queried before request 2 inserted; both had inserted before
\* either queried.
RanSerially == BothEvaluated /\ \A i \in 1..Len(Window(1)) : Window(1)[i].req # 2
RanConcurrently ==
    /\ BothEvaluated
    /\ \E i \in 1..Len(Window(1)) : Window(1)[i].req = 2
    /\ \E i \in 1..Len(Window(2)) : Window(2)[i].req = 1

\* C27: concurrent ingestion for one device is not equivalent to a serial
\* order.  Serial runs decide SerialSpikes, runs in which both inserts precede
\* both history queries decide ConcurrentSpikes, and (C27_Witness) there are a
\* history and two requests for which the interleaved run creates a number of
\* Alerts that neither serial order creates.
C27_ConcurrentDiffersFromSerial ==
    /\ RanSerially => SpikesDecided = SerialSpikes(HistoryBefore, loc[1].power, loc[2].power)
    /\ RanConcurrently =>
          SpikesDecided = ConcurrentSpikes(HistoryBefore, loc[1].power, loc[2].power)

\* Both requests were answered, both inserted before either queried, no call
\* failed, and the number of Alerts stored differs from the number stored by
\* either serial order.
C27_Witness ==
    /\ RanConcurrently
    /\ Done(1) /\ Done(2) /\ failed[1] = "none" /\ failed[2] = "none"
    /\ Len(alerts) = SpikesDecided
    /\ Len(alerts) # SerialSpikes(HistoryBefore, loc[1].power, loc[2].power)
    /\ Len(alerts) # SerialSpikes(HistoryBefore, loc[2].power, loc[1].power)

\* The number of times request r issued the call `op`.
TimesIssued(r, op) == Cardinality({i \in 1..Len(ops[r]) : ops[r][i] = op})

\* C28: each request creates at most one Alert and calls the gateway at most
\* once, no call is issued a second time, and for every device the number of
\* Alerts is at most the number of readings stored for it.
C28_AtMostOneAlertPerReading ==
    /\ \A r \in Reqs :
          /\ Len(AlertsOf(r)) <= 1
          /\ Len(CallsOf(r)) <= 1
          /\ \A i \in 1..Len(ops[r]) : TimesIssued(r, ops[r][i]) = 1
    /\ \A d \in DeviceIds :
          Len(SelectSeq(alerts, LAMBDA a : a.deviceId = d /\ a.alertType = "power_spike"))
             <= Len(SelectSeq(readings, LAMBDA x : x.deviceId = d))

\* Two Alerts are stored for one device, and the send for one of them had
\* failed and was not repeated.
C28_Witness ==
    /\ Len(alerts) = 2
    /\ \E r \in Reqs : Done(r) /\ failed[r] = "sendEnergyAlert" /\ Len(CallsOf(r)) = 1

\* C29: a steady load never alerts: when all readings of the fetched window
\* (the one just inserted among them) have the same non-negative power, no
\* Alert is created; so once the 10 newest readings of a device are at one
\* level, ingesting that level creates no Alert.
C29_SteadyLoadNoAlert ==
    \A r \in Reqs :
        ( /\ Evaluated(r)
          /\ loc[r].power >= 0
          /\ \A i \in 1..Len(Window(r)) : Window(r)[i].power = loc[r].power )
        => ~Issued(r, "Alert.create") /\ AlertsOf(r) = <<>>

\* A request at the level of the 10 newest readings, zero and positive, was
\* answered without an Alert.
C29_Witness ==
    \E r \in Reqs :
        /\ Done(r) /\ Evaluated(r) /\ res[r].status = 201
        /\ Len(Window(r)) = 10
        /\ \A i \in 1..Len(Window(r)) : Window(r)[i].power = loc[r].power
        /\ AlertsOf(r) = <<>>

====
